---- MODULE Spec2Model ----
(***************************************************************************)
(* The Moodle API authentication and role-resolution client                *)
(* (class MoodleAuth, src/common/auth.py), modelled as a state machine.    *)
(*                                                                         *)
(* Every coroutine of the class is cut at its await points: one action is  *)
(* one block of code that runs without suspension.  The only await that    *)
(* really suspends is the HTTP request inside _call_api; the response is   *)
(* chosen by the environment when the coroutine is resumed.                *)
(*                                                                         *)
(* The sidecar MCP server (class MoodleMCPServer,                          *)
(* src/mcp_server/moodle_server.py) is modelled the same way, one tool     *)
(* call at a time.                                                         *)
(***************************************************************************)
EXTENDS Integers, Sequences, FiniteSets, TLC

VARIABLES
    token,              \* self.token          per client
    authenticated,      \* self.authenticated  per client
    username,           \* self.username       per client
    user_id,            \* self.user_id        per client
    is_teacher,         \* self.is_teacher     per client
    FORCE_TEACHER_ROLE, \* the process environment variable of that name
    task,               \* per task: coroutine stack, registers, request log
    inflight,           \* per task: the HTTP request awaiting its response
    running,            \* the task the event loop is running, or "none"
    evidence,           \* per client: a response has shown a teacher role
    server,             \* the fields of the MoodleMCPServer object
    tool                \* the tool call the MCP server is handling

vars == <<token, authenticated, username, user_id, is_teacher,
          FORCE_TEACHER_ROLE, task, inflight, running, evidence, server, tool>>

client_vars == <<token, authenticated, username, user_id, is_teacher>>

(***************************************************************************)
(* Bounds of the model.                                                    *)
(***************************************************************************)
MaxCourses == 2     \* longest enrolled-courses list the server returns
MaxUsers == 1       \* longest enrolled-users list the server returns
MaxList == 2        \* longest list value in the parameters of a raw call

(***************************************************************************)
(* Python values.  An optional value is None or Some(v); a JSON value      *)
(* carries its Python type, as isinstance() sees it.                       *)
(***************************************************************************)
None == <<>>
Some(v) == <<v>>
Val(o) == o[1]

J(ty, v) == [type |-> ty, val |-> v]
JInt(i) == J("int", i)
JStr(s) == J("str", s)
JList(s) == J("list", s)
JDict(f) == J("dict", f)
JNone == J("None", <<>>)

\* bool(x) of an optional string: None and "" are falsy
TruthyStr(o) == o # None /\ Val(o) # ""

\* bool(x) of an optional integer: None and 0 are falsy
TruthyInt(o) == o # None /\ Val(o) # 0

\* str(x) of a JSON scalar or of None
Str(j) ==
    IF j.type = "int" THEN ToString(j.val)
    ELSE IF j.type = "str" THEN j.val
    ELSE "None"

\* dict.get(key, default)
Get(d, key, default) == IF key \in DOMAIN d THEN d[key] ELSE default

\* str.lower() on the values the environment variable and the mode take
Lower(s) ==
    IF s = "True" THEN "true"
    ELSE IF s = "TRUE" THEN "true"
    ELSE IF s = "Administrative" THEN "administrative"
    ELSE s

(***************************************************************************)
(* Clients and tasks.  The application builds one client per dashboard;    *)
(* a task is one coroutine call chain started by a UI callback.            *)
(***************************************************************************)
Clients == {"teacher", "student"}
Tasks == {"t1", "t2", "s1"}
ClientOf(t) == IF t = "s1" THEN "student" ELSE "teacher"

TokenArgs == {None, Some(""), Some("abc")}
EnvValues == {"", "True"}

SITE_INFO == "core_webservice_get_site_info"
USERS_COURSES == "core_enrol_get_users_courses"
ENROLLED_USERS == "core_enrol_get_enrolled_users"
USERS_BY_FIELD == "core_user_get_users_by_field"

(***************************************************************************)
(* _call_api, lines 134-152: the request parameters.  params is a Python   *)
(* dict, kept as the sequence of its (key, value) items in insertion       *)
(* order; dict.update and item assignment overwrite an existing key.       *)
(***************************************************************************)
SetItem(d, k, v) == [x \in DOMAIN d \cup {k} |-> IF x = k THEN v ELSE d[x]]

Update(d, e) == [x \in DOMAIN d \cup DOMAIN e |-> IF x \in DOMAIN e THEN e[x] ELSE d[x]]

EmptyDict == [x \in {} |-> JNone]

\* the items of a dict-valued list element, in a fixed order
RECURSIVE DictItems(_, _)
DictItems(f, keys) ==
    IF keys = {} THEN <<>>
    ELSE LET k == CHOOSE x \in keys : TRUE
         IN  <<<<k, f[k]>>>> \o DictItems(f, keys \ {k})

RECURSIVE FlattenSub(_, _, _, _)
FlattenSub(acc, key, i, items) ==
    IF items = <<>> THEN acc
    ELSE FlattenSub(
            SetItem(acc, key \o "[" \o ToString(i) \o "][" \o items[1][1] \o "]", items[1][2]),
            key, i, Tail(items))

\* FlattenList with the elements numbered from one instead of enumerate's zero
RECURSIVE FlattenListFromOne(_, _, _, _)
FlattenListFromOne(acc, key, i, value) ==
    IF value = <<>> THEN acc
    ELSE LET item == value[1]
             acc1 == IF item.type = "dict"
                     THEN FlattenSub(acc, key, i + 1, DictItems(item.val, DOMAIN item.val))
                     ELSE SetItem(acc, key \o "[" \o ToString(i + 1) \o "]", item)
         IN  FlattenListFromOne(acc1, key, i + 1, Tail(value))

RECURSIVE FlattenList(_, _, _, _)
FlattenList(acc, key, i, value) ==
    IF value = <<>> THEN acc
    ELSE LET item == value[1]
             acc1 == IF item.type = "dict"
                     THEN FlattenSub(acc, key, i, DictItems(item.val, DOMAIN item.val))
                     ELSE SetItem(acc, key \o "[" \o ToString(i) \o "]", item)
         IN  FlattenList(acc1, key, i + 1, Tail(value))

RECURSIVE processed_params(_, _)
processed_params(acc, params) ==
    IF params = <<>> THEN acc
    ELSE LET key == params[1][1]
             value == params[1][2]
             acc1 == IF value.type = "list"
                     THEN FlattenList(acc, key, 0, value.val)
                     ELSE SetItem(acc, key, value)
         IN  processed_params(acc1, Tail(params))

request_params(tok, function, params) ==
    LET base == [k \in {"wstoken", "wsfunction", "moodlewsrestformat"} |->
                    IF k = "wstoken" THEN JStr(tok)
                    ELSE IF k = "wsfunction" THEN JStr(function)
                    ELSE JStr("json")]
    IN  IF params # <<>> THEN Update(base, processed_params(EmptyDict, params)) ELSE base

(***************************************************************************)
(* The remote service.  What httpx hands back for one GET: a response     *)
(* with a status code and a body, or a timeout, or a transport error.      *)
(***************************************************************************)
Unparseable == J("invalid", <<>>)       \* response.json() raises JSONDecodeError

HttpResponse(status, body) == [kind |-> "response", status_code |-> status, body |-> body]
TimeoutException == [kind |-> "timeout", status_code |-> 0, body |-> Unparseable]
RequestError == [kind |-> "request_error", status_code |-> 0, body |-> Unparseable]

ExceptionEnvelope(code) ==
    JDict([exception |-> "moodle_exception", errorcode |-> code, message |-> "rejected"])
CompactEnvelope(code) ==
    JDict([error |-> "rejected", errorcode |-> code])

FailureResponses ==
    { HttpResponse(401, Unparseable), HttpResponse(403, Unparseable),
      HttpResponse(500, Unparseable), TimeoutException, RequestError,
      HttpResponse(200, Unparseable),
      HttpResponse(200, ExceptionEnvelope("invalidtoken")),
      HttpResponse(200, ExceptionEnvelope("accessexception")),
      HttpResponse(200, CompactEnvelope("invalidtoken")),
      HttpResponse(200, CompactEnvelope("accessexception")) }

UserIds == {0, 7, 8}

SiteInfoBodies ==
    { JDict([userid |-> u, username |-> "jdoe"]) : u \in UserIds }
    \cup { JDict([userid |-> u]) : u \in UserIds }
    \cup { JDict([username |-> "jdoe"]), JList(<<>>) }

SeqsUpTo(S, n) == UNION { [1..k -> S] : k \in 0..n }

CourseDicts ==
    { [id |-> 1], [id |-> 2], [id |-> 1, roleid |-> 3], [id |-> 2, roleid |-> 4],
      [id |-> 1, roleid |-> 5], [roleid |-> 5], [id |-> 0] }

CoursesBodies ==
    { JList(s) : s \in SeqsUpTo(CourseDicts, MaxCourses) } \cup { JDict([warnings |-> "none"]) }

UserDicts ==
    { [id |-> JInt(7), roles |-> <<[shortname |-> "student"]>>],
      [id |-> JInt(7), roles |-> <<[shortname |-> "teacher"]>>],
      [id |-> JInt(7), roles |-> <<[shortname |-> "student"], [shortname |-> "manager"]>>],
      [id |-> JInt(8), roles |-> <<[shortname |-> "editingteacher"]>>],
      [id |-> JStr("7"), roles |-> <<[shortname |-> "coursecreator"]>>],
      [id |-> JInt(7)],
      [roles |-> <<[shortname |-> "teacher"]>>] }

UsersBodies ==
    { JList(s) : s \in SeqsUpTo(UserDicts, MaxUsers) } \cup { JDict([warnings |-> "none"]) }

ServerResponses(function) ==
    FailureResponses \cup
    { HttpResponse(200, b) :
        b \in IF function = SITE_INFO THEN SiteInfoBodies
              ELSE IF function = USERS_COURSES THEN CoursesBodies
              ELSE IF function = ENROLLED_USERS THEN UsersBodies
              ELSE { JList(<<>>), JList(<<[id |-> JInt(7)]>>) } }

(***************************************************************************)
(* _call_api, lines 154-203: what the coroutine does with the response.    *)
(* The result is the new token and the returned pair (ok, data).           *)
(***************************************************************************)
Result(ok, data) == [ok |-> ok, data |-> data]

\* call_api_response discarding the token on every HTTP error status
call_api_response_any_status(tok, function, resp) ==
    IF resp.kind = "timeout" THEN
        [token |-> tok, ret |-> Result(FALSE, JStr("timeout"))]
    ELSE IF resp.kind = "request_error" THEN
        [token |-> tok, ret |-> Result(FALSE, JStr("network error"))]
    ELSE IF resp.status_code >= 400 THEN        \* raise_for_status
        [token |-> None,
         ret |-> Result(FALSE, JStr("HTTP " \o ToString(resp.status_code) \o " (possibly invalid token)"))]
    ELSE IF resp.body.type = "invalid" THEN
        [token |-> tok, ret |-> Result(FALSE, JStr("invalid JSON"))]
    ELSE LET data == resp.body IN
        IF data.type = "dict" /\ "exception" \in DOMAIN data.val THEN
            LET error_msg == Get(data.val, "message", "unknown error")
                error_code == Get(data.val, "errorcode", "unknown")
            IN  [token |-> IF error_code = "invalidtoken" THEN None ELSE tok,
                 ret |-> Result(FALSE, JStr("Moodle API error (" \o error_code \o "): " \o error_msg))]
        ELSE IF /\ data.type = "dict"
                /\ "error" \in DOMAIN data.val
                /\ "errorcode" \in DOMAIN data.val
                /\ Cardinality(DOMAIN data.val) <= 3 THEN
            [token |-> tok,
             ret |-> Result(FALSE, JStr("Moodle API error (" \o data.val["errorcode"] \o "): " \o data.val["error"]))]
        ELSE [token |-> tok, ret |-> Result(TRUE, data)]

call_api_response(tok, function, resp) ==
    IF resp.kind = "timeout" THEN
        [token |-> tok, ret |-> Result(FALSE, JStr("timeout"))]
    ELSE IF resp.kind = "request_error" THEN
        [token |-> tok, ret |-> Result(FALSE, JStr("network error"))]
    ELSE IF resp.status_code >= 400 THEN        \* raise_for_status
        IF resp.status_code \in {403, 401}
        THEN [token |-> None,
              ret |-> Result(FALSE, JStr("HTTP " \o ToString(resp.status_code) \o " (possibly invalid token)"))]
        ELSE [token |-> tok,
              ret |-> Result(FALSE, JStr("HTTP " \o ToString(resp.status_code)))]
    ELSE IF resp.body.type = "invalid" THEN
        [token |-> tok, ret |-> Result(FALSE, JStr("invalid JSON"))]
    ELSE LET data == resp.body IN
        IF data.type = "dict" /\ "exception" \in DOMAIN data.val THEN
            LET error_msg == Get(data.val, "message", "unknown error")
                error_code == Get(data.val, "errorcode", "unknown")
            IN  [token |-> IF error_code = "invalidtoken" THEN None ELSE tok,
                 ret |-> Result(FALSE, JStr("Moodle API error (" \o error_code \o "): " \o error_msg))]
        ELSE IF /\ data.type = "dict"
                /\ "error" \in DOMAIN data.val
                /\ "errorcode" \in DOMAIN data.val
                /\ Cardinality(DOMAIN data.val) <= 3 THEN
            [token |-> tok,
             ret |-> Result(FALSE, JStr("Moodle API error (" \o data.val["errorcode"] \o "): " \o data.val["error"]))]
        ELSE [token |-> tok, ret |-> Result(TRUE, data)]

(***************************************************************************)
(* Parameters the callers of _call_api pass (the dashboards and main()).   *)
(***************************************************************************)
ListItems ==
    { JInt(10), JInt(20), JDict([name |-> JInt(1)]),
      JDict([name |-> JStr("messageformat"), value |-> JInt(1)]),
      JList(<<JInt(1)>>), JDict([ids |-> JList(<<JInt(1)>>)]) }

ParamValues ==
    { JInt(7), JStr("id") }
    \cup { JList(s) : s \in SeqsUpTo(ListItems, MaxList) }
    \cup { JDict([timestart |-> JInt(1), timeend |-> JInt(2)]) }

ParamsInputs ==
    { <<>> }
    \cup { << <<k, v>> >> : k \in {"values", "courseids[0]"}, v \in ParamValues }
    \cup { << <<"field", JStr("id")>>, <<"values", v>> >> : v \in ParamValues }

\* main(), lines 335-338, and a list-valued call
RawParams ==
    { << <<"field", JStr("id")>>, <<"values[0]", JInt(7)>> >>,
      << <<"values", JList(<<JInt(10), JInt(20)>>)>> >> }

(***************************************************************************)
(* Tasks.  stack is the chain of suspended coroutines, innermost last;     *)
(* ret is the value the last finished coroutine returned to its caller;    *)
(* call holds the arguments of the pending _call_api; course_ids is the    *)
(* list the second loop of _get_user_role still has to visit; asked is     *)
(* the function of the last request of the operation in progress ("" when  *)
(* it has sent none), probe is what its first response said and accepted   *)
(* whether every response so far was a normal answer, shown whether one of *)
(* them showed a teacher role; heard is what the response to the last      *)
(* request said ("none" while it is awaited); listed holds the course ids  *)
(* of the last enrolled-courses response and looked the course ids of the  *)
(* enrolled-users requests sent since; last is the outcome of the last     *)
(* finished operation.                                                     *)
(***************************************************************************)
Frame(fn, pc) == [fn |-> fn, pc |-> pc]

NoResult == [ok |-> FALSE, data |-> JNone]
NoCall == [function |-> "", params |-> <<>>]

IdleTask ==
    [stack |-> <<>>, ret |-> NoResult, call |-> NoCall,
     course_ids |-> <<>>, asked |-> "", probe |-> "none", accepted |-> TRUE,
     shown |-> FALSE, heard |-> "none", listed |-> <<>>, looked |-> <<>>,
     last |-> [op |-> "none", ok |-> FALSE, data |-> JNone]]

Top(t) == task[t].stack[Len(task[t].stack)]

At(t, fn, pc) ==
    /\ running = t
    /\ task[t].stack # <<>>
    /\ Top(t) = Frame(fn, pc)

\* the running coroutine awaits callee(); it resumes at pc
Await(tk, pc, callee) ==
    [tk EXCEPT !.stack = Append([@ EXCEPT ![Len(@)].pc = pc], Frame(callee, "enter")),
               !.ret = NoResult]

\* the running coroutine awaits _call_api(function, params); it resumes at pc
AwaitCall(tk, pc, function, params) ==
    [Await(tk, pc, "_call_api") EXCEPT !.call = [function |-> function, params |-> params]]

\* the running coroutine returns r to its caller, or to the UI callback
Return(tk, r) ==
    IF Len(tk.stack) = 1
    THEN [tk EXCEPT !.stack = <<>>, !.ret = NoResult, !.call = NoCall,
                    !.last = [op |-> tk.stack[1].fn, ok |-> r.ok, data |-> r.data]]
    ELSE [tk EXCEPT !.stack = SubSeq(@, 1, Len(@) - 1), !.ret = r, !.call = NoCall]

\* the event loop keeps running t until its outermost coroutine has returned
Scheduled(t, tk) == IF tk.stack = <<>> THEN "none" ELSE t

(***************************************************************************)
(* What a response says about the credential and about the role, read off  *)
(* the response alone.                                                     *)
(***************************************************************************)
IsEnvelope(body, code) ==
    /\ body.type = "dict"
    /\ "errorcode" \in DOMAIN body.val
    /\ body.val["errorcode"] = code

Verdict(function, resp) ==
    IF resp.kind = "timeout" THEN "timeout"
    ELSE IF resp.kind = "request_error" THEN "network"
    ELSE IF resp.status_code \in {401, 403} THEN "unauthorized"
    ELSE IF resp.status_code # 200 THEN "http_error"
    ELSE IF resp.body.type = "invalid" THEN "malformed"
    ELSE IF IsEnvelope(resp.body, "invalidtoken") THEN
        IF "exception" \in DOMAIN resp.body.val THEN "invalidtoken" ELSE "invalidtoken_compact"
    ELSE IF resp.body.type = "dict" /\ "errorcode" \in DOMAIN resp.body.val THEN "domain_error"
    ELSE IF function = SITE_INFO THEN
        IF resp.body.type = "dict" /\ "userid" \in DOMAIN resp.body.val THEN "accept" ELSE "unexpected"
    ELSE IF resp.body.type = "list" THEN "accept" ELSE "unexpected"

TeacherRoleIds == {3, 4}
TeacherShortnames == {"editingteacher", "teacher", "coursecreator", "manager"}

ShowsTeacher(function, resp, uid) ==
    /\ resp.kind = "response" /\ resp.status_code = 200 /\ resp.body.type = "list"
    /\ \E i \in 1..Len(resp.body.val) :
        LET e == resp.body.val[i] IN
        IF function = USERS_COURSES
        THEN "roleid" \in DOMAIN e /\ e["roleid"] \in TeacherRoleIds
        ELSE /\ function = ENROLLED_USERS
             /\ uid # None
             /\ "id" \in DOMAIN e /\ Str(e["id"]) = ToString(Val(uid))
             /\ "roles" \in DOMAIN e
             /\ \E r \in 1..Len(e["roles"]) : e["roles"][r]["shortname"] \in TeacherShortnames

\* the ids of the courses of an enrolled-courses response, in list order
EnrolledIds(resp) ==
    IF resp.kind = "response" /\ resp.status_code = 200 /\ resp.body.type = "list"
    THEN LET with_id == SelectSeq(resp.body.val, LAMBDA e : "id" \in DOMAIN e /\ e["id"] # 0)
         IN  [i \in 1..Len(with_id) |-> with_id[i]["id"]]
    ELSE <<>>

(***************************************************************************)
(* MoodleMCPServer.__init__, lines 25-47: the fields of the server object, *)
(* and the tool call it is handling: the coroutine stack, the result being *)
(* returned, the web-service function being called, the HTTP request in    *)
(* flight.  valid and role record what is_token_valid and _get_user_role   *)
(* returned in this tool call; out is the message of the last tool call.   *)
(***************************************************************************)
MoodleMCPServer(tok) ==
    [token |-> tok, username |-> None, password |-> None, user_id |-> None,
     user_info |-> None, is_teacher |-> FALSE, mode |-> "analytical"]

NoTool ==
    [name |-> "", arg |-> "", stack |-> <<>>, ret |-> NoResult, call |-> "",
     sent |-> None, valid |-> "none", role |-> "none", out |-> "none"]

(***************************************************************************)
(* MoodleAuth.__init__, lines 14-40.                                       *)
(***************************************************************************)
ForceTeacher == Lower(FORCE_TEACHER_ROLE) = "true"

Init ==
    /\ FORCE_TEACHER_ROLE \in EnvValues
    /\ \E API_MOODLE_TOKEN \in TokenArgs :
        token = [c \in Clients |-> API_MOODLE_TOKEN]   \* MoodleAuth(moodle_url): no token argument
    /\ authenticated = [c \in Clients |-> FALSE]
    /\ username = [c \in Clients |-> None]
    /\ user_id = [c \in Clients |-> None]
    /\ is_teacher = [c \in Clients |-> ForceTeacher]
    /\ task = [t \in Tasks |-> IdleTask]
    /\ inflight = [t \in Tasks |-> None]
    /\ running = "none"
    /\ evidence = [c \in Clients |-> FALSE]
    /\ server = MoodleMCPServer(None)
    /\ tool = NoTool

(***************************************************************************)
(* A UI callback (or any caller) starts one of the client's coroutines.    *)
(***************************************************************************)
Operations ==
    {"authenticate_with_token", "update_user_info", "is_token_valid",
     "_get_user_info", "_get_user_role"}

Invoke(t, fn) ==
    /\ running = "none"
    /\ task[t].stack = <<>>
    /\ task' = [task EXCEPT ![t] = [@ EXCEPT !.stack = <<Frame(fn, "enter")>>,
                                             !.asked = "", !.probe = "none", !.accepted = TRUE,
                                             !.shown = FALSE, !.heard = "none",
                                             !.listed = <<>>, !.looked = <<>>,
                                             !.last = IdleTask.last]]
    /\ running' = t
    /\ UNCHANGED <<client_vars, FORCE_TEACHER_ROLE, inflight, evidence, server, tool>>

InvokeCall(t, function, params) ==
    /\ running = "none"
    /\ task[t].stack = <<>>
    /\ task' = [task EXCEPT ![t] = [@ EXCEPT !.stack = <<Frame("_call_api", "enter")>>,
                                             !.call = [function |-> function, params |-> params],
                                             !.asked = "", !.probe = "none", !.accepted = TRUE,
                                             !.shown = FALSE, !.heard = "none",
                                             !.listed = <<>>, !.looked = <<>>,
                                             !.last = IdleTask.last]]
    /\ running' = t
    /\ UNCHANGED <<client_vars, FORCE_TEACHER_ROLE, inflight, evidence, server, tool>>

(***************************************************************************)
(* _call_api, lines 124-203.                                               *)
(***************************************************************************)
\* lines 127-155: the token check, the request parameters, the GET
\* call_api_enter suspending between the token check and the request
call_api_enter_suspending(t) ==
    LET c == ClientOf(t)
        tk == task[t]
    IN
    /\ tk.stack # <<>>
    /\ \/ /\ At(t, "_call_api", "enter")
          /\ IF token[c] = None
             THEN LET tk1 == Return(tk, Result(FALSE, JStr("token not set")))
                  IN  /\ task' = [task EXCEPT ![t] = tk1]
                      /\ running' = Scheduled(t, tk1)
             ELSE /\ task' = [task EXCEPT ![t] = [tk EXCEPT !.stack[Len(tk.stack)].pc = "build"]]
                  /\ running' = "none"
          /\ UNCHANGED inflight
       \/ /\ running = "none"
          /\ Top(t) = Frame("_call_api", "build")
          /\ LET req == [request_params("", tk.call.function, tk.call.params)
                            EXCEPT !["wstoken"] = IF token[c] = None THEN JNone
                                                  ELSE JStr(Val(token[c]))]
             IN  /\ task' = [task EXCEPT ![t] = [tk EXCEPT !.stack[Len(tk.stack)].pc = "get",
                                                           !.asked = tk.call.function,
                                                           !.heard = "none",
                                                           !.listed = IF tk.call.function = ENROLLED_USERS
                                                                      THEN @ ELSE <<>>,
                                                           !.looked = IF tk.call.function = ENROLLED_USERS
                                                                      THEN Append(@, req["courseid"].val)
                                                                      ELSE <<>>]]
                 /\ inflight' = [inflight EXCEPT ![t] = Some(req)]
                 /\ running' = "none"
    /\ UNCHANGED <<client_vars, FORCE_TEACHER_ROLE, evidence, server, tool>>

call_api_enter(t) ==
    LET c == ClientOf(t)
        tk == task[t]
    IN
    /\ At(t, "_call_api", "enter")
    /\ IF token[c] = None
       THEN LET tk1 == Return(tk, Result(FALSE, JStr("token not set")))
            IN  /\ task' = [task EXCEPT ![t] = tk1]
                /\ running' = Scheduled(t, tk1)
                /\ UNCHANGED inflight
       ELSE LET req == request_params(Val(token[c]), tk.call.function, tk.call.params)
            IN  /\ task' = [task EXCEPT ![t] = [tk EXCEPT !.stack[Len(tk.stack)].pc = "get",
                                                          !.asked = tk.call.function,
                                                          !.heard = "none",
                                                          !.listed = IF tk.call.function = ENROLLED_USERS
                                                                     THEN @ ELSE <<>>,
                                                          !.looked = IF tk.call.function = ENROLLED_USERS
                                                                     THEN Append(@, req["courseid"].val)
                                                                     ELSE <<>>]]
                /\ inflight' = [inflight EXCEPT ![t] = Some(req)]
                /\ running' = "none"
    /\ UNCHANGED <<client_vars, FORCE_TEACHER_ROLE, evidence, server, tool>>

\* call_api_resume with the token kept in one place for every client
call_api_resume_shared_token(t, resp) ==
    LET c == ClientOf(t)
        tk == task[t]
        out == call_api_response(token[c], tk.call.function, resp)
        verdict == Verdict(tk.call.function, resp)
        tk1 == Return([tk EXCEPT !.probe = IF tk.probe = "none" THEN verdict ELSE @,
                                 !.accepted = @ /\ verdict = "accept",
                                 !.shown = @ \/ ShowsTeacher(tk.call.function, resp, user_id[c]),
                                 !.heard = verdict,
                                 !.listed = IF tk.call.function = USERS_COURSES
                                            THEN EnrolledIds(resp) ELSE @], out.ret)
    IN
    /\ running = "none"
    /\ inflight[t] # None
    /\ tk.stack # <<>> /\ Top(t) = Frame("_call_api", "get")
    /\ token' = [other \in Clients |-> out.token]
    /\ task' = [task EXCEPT ![t] = tk1]
    /\ inflight' = [inflight EXCEPT ![t] = None]
    /\ running' = Scheduled(t, tk1)
    /\ evidence' = [evidence EXCEPT ![c] = @ \/ ShowsTeacher(tk.call.function, resp, user_id[c])]
    /\ UNCHANGED <<authenticated, username, user_id, is_teacher, FORCE_TEACHER_ROLE, server, tool>>

\* lines 155-203: the response arrives and the coroutine is resumed
call_api_resume(t, resp) ==
    LET c == ClientOf(t)
        tk == task[t]
        out == call_api_response(token[c], tk.call.function, resp)
        verdict == Verdict(tk.call.function, resp)
        tk1 == Return([tk EXCEPT !.probe = IF tk.probe = "none" THEN verdict ELSE @,
                                 !.accepted = @ /\ verdict = "accept",
                                 !.shown = @ \/ ShowsTeacher(tk.call.function, resp, user_id[c]),
                                 !.heard = verdict,
                                 !.listed = IF tk.call.function = USERS_COURSES
                                            THEN EnrolledIds(resp) ELSE @], out.ret)
    IN
    /\ running = "none"
    /\ inflight[t] # None
    /\ tk.stack # <<>> /\ Top(t) = Frame("_call_api", "get")
    /\ token' = [token EXCEPT ![c] = out.token]
    /\ task' = [task EXCEPT ![t] = tk1]
    /\ inflight' = [inflight EXCEPT ![t] = None]
    /\ running' = Scheduled(t, tk1)
    /\ evidence' = [evidence EXCEPT ![c] = @ \/ ShowsTeacher(tk.call.function, resp, user_id[c])]
    /\ UNCHANGED <<authenticated, username, user_id, is_teacher, FORCE_TEACHER_ROLE, server, tool>>

\* a block of a coroutine has run: the task moves on, nothing is sent
Step(t, tk1) ==
    /\ task' = [task EXCEPT ![t] = tk1]
    /\ running' = Scheduled(t, tk1)
    /\ UNCHANGED <<FORCE_TEACHER_ROLE, inflight, evidence, server, tool>>

(***************************************************************************)
(* _get_user_info, lines 206-223.                                          *)
(***************************************************************************)
get_user_info_enter(t) ==
    /\ At(t, "_get_user_info", "enter")
    /\ Step(t, AwaitCall(task[t], "called", SITE_INFO, <<>>))
    /\ UNCHANGED client_vars

\* get_user_info_called forgetting the identity when the response has no userid
get_user_info_called_clearing(t) ==
    LET c == ClientOf(t)
        success == task[t].ret.ok
        data == task[t].ret.data
    IN
    /\ At(t, "_get_user_info", "called")
    /\ IF success /\ data.type = "dict" /\ "userid" \in DOMAIN data.val
       THEN /\ user_id' = [user_id EXCEPT ![c] = Some(data.val["userid"])]
            /\ username' = [username EXCEPT ![c] =
                    IF "username" \in DOMAIN data.val THEN Some(data.val["username"]) ELSE @]
            /\ Step(t, Return(task[t], Result(TRUE, JStr("user id received"))))
       ELSE IF ~success
       THEN /\ UNCHANGED <<user_id, username>>
            /\ Step(t, Return(task[t], Result(FALSE, JStr("site info failed: " \o data.val))))
       ELSE /\ user_id' = [user_id EXCEPT ![c] = None]
            /\ UNCHANGED username
            /\ Step(t, Return(task[t], Result(FALSE, JStr("no userid in response"))))
    /\ UNCHANGED <<token, authenticated, is_teacher>>

\* get_user_info_called calling site info again when the call failed
get_user_info_called_retrying(t) ==
    LET c == ClientOf(t)
        success == task[t].ret.ok
        data == task[t].ret.data
    IN
    /\ At(t, "_get_user_info", "called")
    /\ IF success /\ data.type = "dict" /\ "userid" \in DOMAIN data.val
       THEN /\ user_id' = [user_id EXCEPT ![c] = Some(data.val["userid"])]
            /\ username' = [username EXCEPT ![c] =
                    IF "username" \in DOMAIN data.val THEN Some(data.val["username"]) ELSE @]
            /\ Step(t, Return(task[t], Result(TRUE, JStr("user id received"))))
       ELSE IF ~success
       THEN /\ UNCHANGED <<user_id, username>>
            /\ Step(t, AwaitCall(task[t], "called", SITE_INFO, <<>>))
       ELSE /\ UNCHANGED <<user_id, username>>
            /\ Step(t, Return(task[t], Result(FALSE, JStr("no userid in response"))))
    /\ UNCHANGED <<token, authenticated, is_teacher>>

get_user_info_called(t) ==
    LET c == ClientOf(t)
        success == task[t].ret.ok
        data == task[t].ret.data
    IN
    /\ At(t, "_get_user_info", "called")
    /\ IF success /\ data.type = "dict" /\ "userid" \in DOMAIN data.val
       THEN /\ user_id' = [user_id EXCEPT ![c] = Some(data.val["userid"])]
            /\ username' = [username EXCEPT ![c] =
                    IF "username" \in DOMAIN data.val THEN Some(data.val["username"]) ELSE @]
            /\ Step(t, Return(task[t], Result(TRUE, JStr("user id received"))))
       ELSE IF ~success
       THEN /\ UNCHANGED <<user_id, username>>
            /\ Step(t, Return(task[t], Result(FALSE, JStr("site info failed: " \o data.val))))
       ELSE /\ UNCHANGED <<user_id, username>>
            /\ Step(t, Return(task[t], Result(FALSE, JStr("no userid in response"))))
    /\ UNCHANGED <<token, authenticated, is_teacher>>

(***************************************************************************)
(* is_token_valid, lines 279-292.                                          *)
(***************************************************************************)
is_token_valid_enter(t) ==
    /\ At(t, "is_token_valid", "enter")
    /\ IF ~TruthyStr(token[ClientOf(t)])
       THEN Step(t, Return(task[t], Result(FALSE, JStr("token missing"))))
       ELSE Step(t, Await(task[t], "checked", "_get_user_info"))
    /\ UNCHANGED client_vars

\* is_token_valid_checked discarding the token when the check failed
is_token_valid_checked_discarding(t) ==
    LET c == ClientOf(t)
        success == task[t].ret.ok
        msg_or_data == task[t].ret.data
    IN
    /\ At(t, "is_token_valid", "checked")
    /\ IF success
       THEN /\ UNCHANGED token
            /\ Step(t, Return(task[t], Result(TRUE, JStr("token valid"))))
       ELSE /\ token' = [token EXCEPT ![c] = None]
            /\ Step(t, Return(task[t], Result(FALSE, JStr("token check failed: " \o msg_or_data.val))))
    /\ UNCHANGED <<authenticated, username, user_id, is_teacher>>

is_token_valid_checked(t) ==
    LET success == task[t].ret.ok
        msg_or_data == task[t].ret.data
    IN
    /\ At(t, "is_token_valid", "checked")
    /\ IF success
       THEN Step(t, Return(task[t], Result(TRUE, JStr("token valid"))))
       ELSE Step(t, Return(task[t], Result(FALSE, JStr("token check failed: " \o msg_or_data.val))))
    /\ UNCHANGED client_vars

(***************************************************************************)
(* authenticate_with_token, lines 56-97.                                   *)
(***************************************************************************)
\* lines 61-65
authenticate_enter(t) ==
    /\ At(t, "authenticate_with_token", "enter")
    /\ IF ~TruthyStr(token[ClientOf(t)])
       THEN Step(t, Return(task[t], Result(FALSE, JStr("token not provided"))))
       ELSE Step(t, Await(task[t], "validated", "is_token_valid"))
    /\ UNCHANGED client_vars

\* authenticate_validated blanking the token instead of discarding it
authenticate_validated_blank_token(t) ==
    LET c == ClientOf(t)
        is_valid == task[t].ret.ok
        msg == task[t].ret.data
    IN
    /\ At(t, "authenticate_with_token", "validated")
    /\ IF ~is_valid
       THEN /\ token' = [token EXCEPT ![c] = Some("")]
            /\ authenticated' = [authenticated EXCEPT ![c] = FALSE]
            /\ Step(t, Return(task[t], Result(FALSE, JStr("token invalid: " \o msg.val))))
       ELSE /\ UNCHANGED <<token, authenticated>>
            /\ IF ~TruthyInt(user_id[c])
               THEN Step(t, Await(task[t], "info", "_get_user_info"))
               ELSE Step(t, AwaitCall(task[t], "site_info", SITE_INFO, <<>>))
    /\ UNCHANGED <<username, user_id, is_teacher>>

\* lines 65-83: after is_token_valid
authenticate_validated(t) ==
    LET c == ClientOf(t)
        is_valid == task[t].ret.ok
        msg == task[t].ret.data
    IN
    /\ At(t, "authenticate_with_token", "validated")
    /\ IF ~is_valid
       THEN /\ token' = [token EXCEPT ![c] = None]
            /\ authenticated' = [authenticated EXCEPT ![c] = FALSE]
            /\ Step(t, Return(task[t], Result(FALSE, JStr("token invalid: " \o msg.val))))
       ELSE /\ UNCHANGED <<token, authenticated>>
            /\ IF ~TruthyInt(user_id[c])
               THEN Step(t, Await(task[t], "info", "_get_user_info"))
               ELSE Step(t, AwaitCall(task[t], "site_info", SITE_INFO, <<>>))
    /\ UNCHANGED <<username, user_id, is_teacher>>

\* lines 75-83: after _get_user_info
authenticate_info(t) ==
    LET c == ClientOf(t)
        info_ok == task[t].ret.ok
        info_msg == task[t].ret.data
    IN
    /\ At(t, "authenticate_with_token", "info")
    /\ IF ~info_ok
       THEN /\ authenticated' = [authenticated EXCEPT ![c] = FALSE]
            /\ Step(t, Return(task[t], Result(FALSE, JStr("no user id with valid token: " \o info_msg.val))))
       ELSE /\ UNCHANGED authenticated
            /\ Step(t, AwaitCall(task[t], "site_info", SITE_INFO, <<>>))
    /\ UNCHANGED <<token, username, user_id, is_teacher>>

\* lines 83-90: after the second site-info call
authenticate_site_info(t) ==
    LET c == ClientOf(t)
        success_site_info == task[t].ret.ok
        site_info_data == task[t].ret.data
    IN
    /\ At(t, "authenticate_with_token", "site_info")
    /\ username' = [username EXCEPT ![c] =
            IF success_site_info /\ site_info_data.type = "dict"
            THEN IF "username" \in DOMAIN site_info_data.val
                 THEN Some(site_info_data.val["username"]) ELSE None
            ELSE Some("TokenUser")]
    /\ Step(t, Await(task[t], "role", "_get_user_role"))
    /\ UNCHANGED <<token, authenticated, user_id, is_teacher>>

\* authenticate_role without line 96
authenticate_role_no_flag(t) ==
    /\ At(t, "authenticate_with_token", "role")
    /\ Step(t, Return(task[t], Result(TRUE, JStr("token authentication succeeded"))))
    /\ UNCHANGED client_vars

\* lines 90-97: after _get_user_role
authenticate_role(t) ==
    LET c == ClientOf(t) IN
    /\ At(t, "authenticate_with_token", "role")
    /\ authenticated' = [authenticated EXCEPT ![c] = TRUE]
    /\ Step(t, Return(task[t], Result(TRUE, JStr("token authentication succeeded"))))
    /\ UNCHANGED <<token, username, user_id, is_teacher>>

(***************************************************************************)
(* update_user_info, lines 99-122.                                         *)
(***************************************************************************)
update_user_info_enter(t) ==
    LET c == ClientOf(t) IN
    /\ At(t, "update_user_info", "enter")
    /\ IF ~TruthyStr(token[c])
       THEN Step(t, Return(task[t], Result(FALSE, JStr("token missing"))))
       ELSE IF ~authenticated[c]
       THEN Step(t, Await(task[t], "auth", "authenticate_with_token"))
       ELSE Step(t, Await(task[t], "info", "_get_user_info"))
    /\ UNCHANGED client_vars

update_user_info_auth(t) ==
    LET auth_success == task[t].ret.ok
        auth_msg == task[t].ret.data
    IN
    /\ At(t, "update_user_info", "auth")
    /\ IF ~auth_success
       THEN Step(t, Return(task[t], Result(FALSE, JStr("authentication failed: " \o auth_msg.val))))
       ELSE Step(t, Await(task[t], "info", "_get_user_info"))
    /\ UNCHANGED client_vars

update_user_info_info(t) ==
    LET success == task[t].ret.ok
        msg == task[t].ret.data
    IN
    /\ At(t, "update_user_info", "info")
    /\ IF ~success
       THEN Step(t, Return(task[t], Result(FALSE, JStr("update failed: " \o msg.val))))
       ELSE Step(t, Await(task[t], "role", "_get_user_role"))
    /\ UNCHANGED client_vars

update_user_info_role(t) ==
    LET role_ok == task[t].ret.ok IN
    /\ At(t, "update_user_info", "role")
    /\ IF ~role_ok
       THEN Step(t, Return(task[t], Result(FALSE, JStr("role update failed"))))
       ELSE Step(t, Return(task[t], Result(TRUE, JStr("user info updated"))))
    /\ UNCHANGED client_vars

(***************************************************************************)
(* _get_user_role, lines 226-276.                                          *)
(***************************************************************************)
\* cheap_pass taking any inline role id for a teacher's
cheap_pass_any_role(courses_data) ==
    \E i \in 1..Len(courses_data) : "roleid" \in DOMAIN courses_data[i]

\* cheap_pass looking at the first course only
cheap_pass_first_course(courses_data) ==
    /\ courses_data # <<>>
    /\ "roleid" \in DOMAIN courses_data[1] /\ courses_data[1]["roleid"] \in {3, 4}

\* lines 249-250: some course carries an inline teacher role id
cheap_pass(courses_data) ==
    \E i \in 1..Len(courses_data) :
        "roleid" \in DOMAIN courses_data[i] /\ courses_data[i]["roleid"] \in {3, 4}

\* line 257: [course.get('id') for course in courses_data if course.get('id')]
RECURSIVE course_id_list(_)
course_id_list(courses_data) ==
    IF courses_data = <<>> THEN <<>>
    ELSE LET course == courses_data[1]
         IN  (IF "id" \in DOMAIN course /\ course["id"] # 0 THEN <<course["id"]>> ELSE <<>>)
             \o course_id_list(Tail(courses_data))

\* users_match without the comparison of the entry's id with user_id
users_match_any_user(roles_data, uid) ==
    \E i \in 1..Len(roles_data) :
        LET roles == Get(roles_data[i], "roles", <<>>)
        IN  \E r \in 1..Len(roles) :
                Get(roles[r], "shortname", "") \in
                    {"editingteacher", "teacher", "coursecreator", "manager"}

\* lines 264-267: the listing holds the current user with a teacher role
users_match(roles_data, uid) ==
    \E i \in 1..Len(roles_data) :
        LET user == roles_data[i]
            roles == Get(user, "roles", <<>>)
        IN  /\ Str(Get(user, "id", JNone)) = Str(JInt(Val(uid)))
            /\ \E r \in 1..Len(roles) :
                Get(roles[r], "shortname", "") \in
                    {"editingteacher", "teacher", "coursecreator", "manager"}

\* get_user_role_enter with the override looked at only after the course scan
get_user_role_enter_scan_first(t) ==
    LET c == ClientOf(t) IN
    /\ At(t, "_get_user_role", "enter")
    /\ IF ~TruthyInt(user_id[c])
       THEN Step(t, Return(task[t], Result(FALSE, JNone)))
       ELSE Step(t, AwaitCall(task[t], "courses", USERS_COURSES,
                              << <<"userid", JInt(Val(user_id[c]))>> >>))
    /\ UNCHANGED client_vars

\* lines 228-242
get_user_role_enter(t) ==
    LET c == ClientOf(t)
        force_teacher == Lower(FORCE_TEACHER_ROLE) = "true"
    IN
    /\ At(t, "_get_user_role", "enter")
    /\ IF ~TruthyInt(user_id[c])
       THEN /\ UNCHANGED is_teacher
            /\ Step(t, Return(task[t], Result(FALSE, JNone)))
       ELSE IF force_teacher
       THEN /\ is_teacher' = [is_teacher EXCEPT ![c] = TRUE]
            /\ Step(t, Return(task[t], Result(TRUE, JNone)))
       ELSE /\ UNCHANGED is_teacher
            /\ Step(t, AwaitCall(task[t], "courses", USERS_COURSES,
                                 << <<"userid", JInt(Val(user_id[c]))>> >>))
    /\ UNCHANGED <<token, authenticated, username, user_id>>

\* lines 240-261: after the enrolled-courses call
get_user_role_courses(t) ==
    LET c == ClientOf(t)
        success == task[t].ret.ok
        courses_data == task[t].ret.data
        ids == course_id_list(courses_data.val)
    IN
    /\ At(t, "_get_user_role", "courses")
    /\ IF ~success \/ courses_data.type # "list"
       THEN /\ UNCHANGED is_teacher
            /\ Step(t, Return(task[t], Result(FALSE, JNone)))
       ELSE IF cheap_pass(courses_data.val)
       THEN /\ is_teacher' = [is_teacher EXCEPT ![c] = TRUE]
            /\ Step(t, Return(task[t], Result(TRUE, JNone)))
       ELSE IF ids = <<>>
       THEN /\ is_teacher' = [is_teacher EXCEPT ![c] = FALSE]
            /\ Step(t, Return(task[t], Result(TRUE, JNone)))
       ELSE /\ UNCHANGED is_teacher
            /\ Step(t, AwaitCall([task[t] EXCEPT !.course_ids = ids], "users", ENROLLED_USERS,
                                 << <<"courseid", JInt(ids[1])>> >>))
    /\ UNCHANGED <<token, authenticated, username, user_id>>

\* get_user_role_users going on to the next course after a match
get_user_role_users_no_early_exit(t) ==
    LET c == ClientOf(t)
        success_roles == task[t].ret.ok
        roles_data == task[t].ret.data
        rest == Tail(task[t].course_ids)
        done == [task[t] EXCEPT !.course_ids = <<>>]
        found == success_roles /\ roles_data.type = "list" /\ users_match(roles_data.val, user_id[c])
    IN
    /\ At(t, "_get_user_role", "users")
    /\ IF rest = <<>>
       THEN /\ is_teacher' = [is_teacher EXCEPT ![c] = found]
            /\ Step(t, Return(done, Result(TRUE, JNone)))
       ELSE /\ is_teacher' = [is_teacher EXCEPT ![c] = @ \/ found]
            /\ Step(t, AwaitCall([task[t] EXCEPT !.course_ids = rest], "users", ENROLLED_USERS,
                                 << <<"courseid", JInt(rest[1])>> >>))
    /\ UNCHANGED <<token, authenticated, username, user_id>>

\* lines 259-276: after one enrolled-users call
get_user_role_users(t) ==
    LET c == ClientOf(t)
        success_roles == task[t].ret.ok
        roles_data == task[t].ret.data
        rest == Tail(task[t].course_ids)
        done == [task[t] EXCEPT !.course_ids = <<>>]
    IN
    /\ At(t, "_get_user_role", "users")
    /\ IF success_roles /\ roles_data.type = "list" /\ users_match(roles_data.val, user_id[c])
       THEN /\ is_teacher' = [is_teacher EXCEPT ![c] = TRUE]
            /\ Step(t, Return(done, Result(TRUE, JNone)))
       ELSE IF rest = <<>>
       THEN /\ is_teacher' = [is_teacher EXCEPT ![c] = FALSE]
            /\ Step(t, Return(done, Result(TRUE, JNone)))
       ELSE /\ UNCHANGED is_teacher
            /\ Step(t, AwaitCall([task[t] EXCEPT !.course_ids = rest], "users", ENROLLED_USERS,
                                 << <<"courseid", JInt(rest[1])>> >>))
    /\ UNCHANGED <<token, authenticated, username, user_id>>

(***************************************************************************)
(* One task using one client: the dashboards call the client from a        *)
(* single task per session.                                                *)
(***************************************************************************)
TaskNext(t) ==
    \/ \E fn \in Operations : Invoke(t, fn)
    \/ \E params \in RawParams : InvokeCall(t, USERS_BY_FIELD, params)
    \/ call_api_enter(t)
    \/ \E resp \in ServerResponses(task[t].call.function) : call_api_resume(t, resp)
    \/ get_user_info_enter(t)
    \/ get_user_info_called(t)
    \/ is_token_valid_enter(t)
    \/ is_token_valid_checked(t)
    \/ authenticate_enter(t)
    \/ authenticate_validated(t)
    \/ authenticate_info(t)
    \/ authenticate_site_info(t)
    \/ authenticate_role(t)
    \/ update_user_info_enter(t)
    \/ update_user_info_auth(t)
    \/ update_user_info_info(t)
    \/ update_user_info_role(t)
    \/ get_user_role_enter(t)
    \/ get_user_role_courses(t)
    \/ get_user_role_users(t)

Next == TaskNext("t1")

Spec == Init /\ [][Next]_vars

(***************************************************************************)
(* One raw call on a fresh client, over a wide range of parameters: the    *)
(* request encoding.                                                       *)
(***************************************************************************)
InitParams ==
    /\ FORCE_TEACHER_ROLE \in EnvValues
    /\ \E API_MOODLE_TOKEN \in TokenArgs : token = [c \in Clients |-> API_MOODLE_TOKEN]
    /\ authenticated = [c \in Clients |-> FALSE]
    /\ username = [c \in Clients |-> None]
    /\ user_id = [c \in Clients |-> None]
    /\ is_teacher = [c \in Clients |-> ForceTeacher]
    /\ \E params \in ParamsInputs :
        task = [t \in Tasks |->
                    IF t = "t1"
                    THEN [IdleTask EXCEPT !.stack = <<Frame("_call_api", "enter")>>,
                                          !.call = [function |-> USERS_BY_FIELD, params |-> params]]
                    ELSE IdleTask]
    /\ inflight = [t \in Tasks |-> None]
    /\ running = "t1"
    /\ evidence = [c \in Clients |-> FALSE]
    /\ server = MoodleMCPServer(None)
    /\ tool = NoTool

NextParams ==
    \/ call_api_enter("t1")
    \/ \E resp \in ServerResponses(task["t1"].call.function) : call_api_resume("t1", resp)

SpecParams == InitParams /\ [][NextParams]_vars

(***************************************************************************)
(* Role resolution alone, on a client whose identity is_token_valid() has  *)
(* resolved.  The event loop runs a ready coroutine, and every request     *)
(* ends: the HTTP client is built with a 30 second timeout.                *)
(***************************************************************************)
InitRole ==
    /\ FORCE_TEACHER_ROLE \in EnvValues
    /\ token = [c \in Clients |-> Some("abc")]
    /\ authenticated = [c \in Clients |-> FALSE]
    /\ username = [c \in Clients |-> Some("jdoe")]
    /\ \E u \in UserIds \ {0} : user_id = [c \in Clients |-> Some(u)]
    /\ is_teacher = [c \in Clients |-> ForceTeacher]
    /\ task = [t \in Tasks |-> IdleTask]
    /\ inflight = [t \in Tasks |-> None]
    /\ running = "none"
    /\ evidence = [c \in Clients |-> FALSE]
    /\ server = MoodleMCPServer(None)
    /\ tool = NoTool

RoleProgress ==
    \/ call_api_enter("t1")
    \/ \E resp \in ServerResponses(task["t1"].call.function) : call_api_resume("t1", resp)
    \/ get_user_role_enter("t1")
    \/ get_user_role_courses("t1")
    \/ get_user_role_users("t1")

NextRole ==
    \/ Invoke("t1", "_get_user_role")
    \/ RoleProgress

SpecRole == InitRole /\ [][NextRole]_vars /\ WF_vars(RoleProgress)

(***************************************************************************)
(* Two callbacks on the teacher dashboard's one client.  The event loop    *)
(* runs one coroutine at a time and switches only where a coroutine is     *)
(* suspended.                                                              *)
(***************************************************************************)
TaskPair == {"t1", "t2"}

InitTasks ==
    /\ FORCE_TEACHER_ROLE \in EnvValues
    /\ \E API_MOODLE_TOKEN \in TokenArgs : token = [c \in Clients |-> API_MOODLE_TOKEN]
    /\ authenticated = [c \in Clients |-> FALSE]
    /\ username = [c \in Clients |-> None]
    /\ user_id = [c \in Clients |-> None]
    /\ is_teacher = [c \in Clients |-> ForceTeacher]
    /\ task = [t \in Tasks |-> IdleTask]
    /\ inflight = [t \in Tasks |-> None]
    /\ running = "none"
    /\ evidence = [c \in Clients |-> FALSE]
    /\ server = MoodleMCPServer(None)
    /\ tool = NoTool

TasksStep(t) ==
    \/ Invoke(t, "is_token_valid")
    \/ Invoke(t, "_get_user_info")
    \/ call_api_enter(t)
    \/ \E resp \in ServerResponses(task[t].call.function) : call_api_resume(t, resp)
    \/ get_user_info_enter(t)
    \/ get_user_info_called(t)
    \/ is_token_valid_enter(t)
    \/ is_token_valid_checked(t)

NextTasks == \E t \in TaskPair : TasksStep(t)

SpecTasks == InitTasks /\ [][NextTasks]_vars

(***************************************************************************)
(* The teacher dashboard's client and the student dashboard's client, each *)
(* authenticating, against a site that answers with one course and one     *)
(* enrolled user at most, or rejects the token, or times out.              *)
(***************************************************************************)
ClientPair == {"t1", "s1"}

DashboardResponses(function) ==
    { resp \in ServerResponses(function) :
        \/ resp.kind = "timeout"
        \/ resp.kind = "response" /\ resp.status_code = 401
        \/ /\ resp.kind = "response" /\ resp.status_code = 200
           /\ \/ Verdict(function, resp) = "invalidtoken"
              \/ /\ function = SITE_INFO /\ resp.body.type = "dict"
                 /\ DOMAIN resp.body.val = {"userid", "username"}
                 /\ resp.body.val["userid"] # 8
              \/ /\ function = USERS_COURSES /\ resp.body.type = "list"
                 /\ Len(resp.body.val) = 1
                 /\ "id" \in DOMAIN resp.body.val[1] /\ resp.body.val[1]["id"] = 1
                 /\ "roleid" \in DOMAIN resp.body.val[1] => resp.body.val[1]["roleid"] = 3
              \/ /\ function = ENROLLED_USERS /\ resp.body.type = "list"
                 /\ Len(resp.body.val) = 1
                 /\ DOMAIN resp.body.val[1] = {"id", "roles"}
                 /\ resp.body.val[1]["id"] = JInt(7)
                 /\ Len(resp.body.val[1]["roles"]) = 1 }

ClientsStep(t) ==
    \/ Invoke(t, "authenticate_with_token")
    \/ call_api_enter(t)
    \/ \E resp \in DashboardResponses(task[t].call.function) : call_api_resume(t, resp)
    \/ get_user_info_enter(t)
    \/ get_user_info_called(t)
    \/ is_token_valid_enter(t)
    \/ is_token_valid_checked(t)
    \/ authenticate_enter(t)
    \/ authenticate_validated(t)
    \/ authenticate_info(t)
    \/ authenticate_site_info(t)
    \/ authenticate_role(t)
    \/ get_user_role_enter(t)
    \/ get_user_role_courses(t)
    \/ get_user_role_users(t)

NextClients == \E t \in ClientPair : ClientsStep(t)

SpecClients == Init /\ [][NextClients]_vars

(***************************************************************************)
(* Role resolution on clients constructed while FORCE_TEACHER_ROLE was     *)
(* unset, in a process whose environment changes afterwards: the variable  *)
(* is looked up again by os.getenv in every _get_user_role.                *)
(***************************************************************************)
InitEnv ==
    /\ FORCE_TEACHER_ROLE = ""
    /\ token = [c \in Clients |-> Some("abc")]
    /\ authenticated = [c \in Clients |-> FALSE]
    /\ username = [c \in Clients |-> Some("jdoe")]
    /\ \E u \in UserIds \ {0} : user_id = [c \in Clients |-> Some(u)]
    /\ is_teacher = [c \in Clients |-> ForceTeacher]
    /\ task = [t \in Tasks |-> IdleTask]
    /\ inflight = [t \in Tasks |-> None]
    /\ running = "none"
    /\ evidence = [c \in Clients |-> FALSE]
    /\ server = MoodleMCPServer(None)
    /\ tool = NoTool

\* the process environment is given a new value of the variable
setenv(value) ==
    /\ running = "none"
    /\ value # FORCE_TEACHER_ROLE
    /\ FORCE_TEACHER_ROLE' = value
    /\ UNCHANGED <<client_vars, task, inflight, running, evidence, server, tool>>

NextEnv ==
    \/ \E value \in EnvValues : setenv(value)
    \/ NextRole

SpecEnv == InitEnv /\ [][NextEnv]_vars

(***************************************************************************)
(* MoodleMCPServer.  The web-service functions its tools call, what the    *)
(* site answers, and the tool calls a client of the server makes.          *)
(***************************************************************************)
USER_ROLES == "core_role_assign_get_user_roles"
SUBMISSIONS == "mod_assign_get_submissions"
COURSE_CONTENTS == "core_course_get_contents"
ADD_DISCUSSION == "mod_forum_add_discussion"
EDIT_SECTION == "core_course_edit_section"

Request(endpoint, tok, function) ==
    [endpoint |-> endpoint, wstoken |-> tok, wsfunction |-> function]

\* client.get / client.post or response.json() raises, or the JSON body
Raised == [kind |-> "raised", body |-> Unparseable]
Json(body) == [kind |-> "json", body |-> body]

MoodleReplies(function) ==
    { Raised, Json(ExceptionEnvelope("invalidtoken")) } \cup
    { Json(b) :
        b \in IF function = SITE_INFO
              THEN { JDict([userid |-> 7]), JDict([userid |-> 8]), JDict([sitename |-> "moodle"]) }
              ELSE IF function = USERS_BY_FIELD
              THEN { JList(<<>>), JList(<<[id |-> JInt(7)]>>) }
              ELSE IF function = USER_ROLES
              THEN { JDict([roles |-> <<[shortname |-> "editingteacher"]>>]),
                     JDict([roles |-> <<[shortname |-> "student"]>>]),
                     JDict([warnings |-> "none"]),
                     JList(<<>>) }
              ELSE IF function = COURSE_CONTENTS
              THEN { JList(<<>>),
                     JList(<<[modules |-> <<[modname |-> "forum", name |-> "Announcements", instance |-> 5]>>]>>),
                     JList(<<[modules |-> <<[modname |-> "forum", name |-> "General", instance |-> 6]>>]>>) }
              ELSE IF function = SUBMISSIONS
              THEN { JDict([assignments |-> <<>>]),
                     JDict([assignments |-> <<[submissions |-> <<[userid |-> 7]>>]>>]) }
              ELSE IF function = "gradereport_user_get_grade_items" THEN { JDict([usergrades |-> <<>>]) }
              ELSE IF function = ADD_DISCUSSION THEN { JDict([discussionid |-> 1]) }
              ELSE IF function = EDIT_SECTION THEN { JDict([sectionid |-> 1]) }
              ELSE { JList(<<>>) } }

LoginReplies ==
    { Raised, Json(JDict([error |-> "invalid login"])),
      Json(JDict([token |-> "tokA"])), Json(JDict([token |-> "tokB"])) }

TeacherTools ==
    {"get_course_students", "get_course_grades", "get_assignment_submissions",
     "create_announcement", "create_course_section"}

ToolNames == {"login", "set_token", "set_mode", "get_user_courses"} \cup TeacherTools

ToolArgs(name) ==
    IF name = "set_token" THEN {"", "tokA", "tokB"}
    ELSE IF name = "set_mode" THEN {"analytical", "administrative", "Administrative", "superuser"}
    ELSE IF name = "login" THEN {"jdoe"}
    ELSE {""}

(***************************************************************************)
(* The coroutine stack of the tool call.                                   *)
(***************************************************************************)
ToolAt(fn, pc) == tool.stack # <<>> /\ tool.stack[Len(tool.stack)] = Frame(fn, pc)

ToolAwait(tl, pc, callee) ==
    [tl EXCEPT !.stack = Append([@ EXCEPT ![Len(@)].pc = pc], Frame(callee, "enter")),
               !.ret = NoResult]

ToolAwaitCall(tl, pc, function) ==
    [ToolAwait(tl, pc, "_call_moodle_api") EXCEPT !.call = function]

\* return r to the caller; the tool's own return is the message it answers
ToolReturn(tl, r) ==
    IF Len(tl.stack) = 1
    THEN [tl EXCEPT !.stack = <<>>, !.ret = NoResult, !.call = "", !.out = r.data.val]
    ELSE [tl EXCEPT !.stack = SubSeq(@, 1, Len(@) - 1), !.ret = r, !.call = ""]

\* an exception nobody catches ends the tool call
ToolRaise(tl) ==
    [tl EXCEPT !.stack = <<>>, !.ret = NoResult, !.call = "", !.out = "raised"]

ToolStep(tl, srv) ==
    /\ tool' = tl
    /\ server' = srv
    /\ UNCHANGED <<client_vars, FORCE_TEACHER_ROLE, task, inflight, running, evidence>>

Message(text) == Result(TRUE, JStr(text))

\* the MCP client calls a tool
CallTool(name, arg) ==
    /\ tool.stack = <<>>
    /\ ToolStep([NoTool EXCEPT !.name = name, !.arg = arg,
                               !.stack = <<Frame(name, "enter")>>], server)

(***************************************************************************)
(* _call_moodle_api, lines 1002-1028.                                      *)
(***************************************************************************)
call_moodle_api_response(reply) ==
    IF reply.kind = "raised" THEN Result(FALSE, JStr("error calling the Moodle API"))
    ELSE IF reply.body.type = "dict" /\ "exception" \in DOMAIN reply.body.val
    THEN Result(FALSE, JStr(Get(reply.body.val, "message", "Moodle API error")))
    ELSE Result(TRUE, reply.body)

call_moodle_api_enter ==
    /\ ToolAt("_call_moodle_api", "enter")
    /\ IF server.token = None
       THEN ToolStep(ToolReturn(tool, Result(FALSE, JStr("authentication required"))), server)
       ELSE ToolStep([tool EXCEPT !.stack[Len(tool.stack)].pc = "get",
                                  !.sent = Some(Request("webservice/rest/server.php", Val(server.token), tool.call))],
                     server)

call_moodle_api_resume(reply) ==
    /\ ToolAt("_call_moodle_api", "get")
    /\ tool.sent # None
    /\ ToolStep(ToolReturn([tool EXCEPT !.sent = None], call_moodle_api_response(reply)), server)

(***************************************************************************)
(* _authenticate, lines 980-1000.                                          *)
(***************************************************************************)
server_authenticate_enter ==
    /\ ToolAt("_authenticate", "enter")
    /\ ToolStep([tool EXCEPT !.stack[Len(tool.stack)].pc = "post",
                             !.sent = Some(Request("login/token.php", "", ""))], server)

server_authenticate_posted(reply) ==
    /\ ToolAt("_authenticate", "post")
    /\ tool.sent # None
    /\ IF reply.kind = "json" /\ reply.body.type = "dict" /\ "token" \in DOMAIN reply.body.val
       THEN ToolStep(ToolReturn([tool EXCEPT !.sent = None], Result(TRUE, JStr("authenticated"))),
                     [server EXCEPT !.token = Some(reply.body.val["token"])])
       ELSE ToolStep(ToolReturn([tool EXCEPT !.sent = None], Result(FALSE, JStr("authentication error"))),
                     server)

(***************************************************************************)
(* _ensure_authenticated, lines 1030-1035.                                 *)
(***************************************************************************)
ensure_authenticated_enter ==
    /\ ToolAt("_ensure_authenticated", "enter")
    /\ IF server.token = None /\ TruthyStr(server.username) /\ TruthyStr(server.password)
       THEN ToolStep(ToolAwait(tool, "auth", "_authenticate"), server)
       ELSE ToolStep(ToolReturn(tool, Result(server.token # None, JNone)), server)

ensure_authenticated_auth ==
    /\ ToolAt("_ensure_authenticated", "auth")
    /\ ToolStep(ToolReturn(tool, Result(tool.ret.ok, JNone)), server)

(***************************************************************************)
(* is_token_valid, lines 1037-1050.                                        *)
(***************************************************************************)
server_is_token_valid_enter ==
    /\ ToolAt("is_token_valid", "enter")
    /\ IF ~TruthyStr(server.token)
       THEN ToolStep(ToolReturn(tool, Result(FALSE, JStr("token not provided"))), server)
       ELSE ToolStep(ToolAwaitCall(tool, "checked", SITE_INFO), server)

server_is_token_valid_checked ==
    /\ ToolAt("is_token_valid", "checked")
    /\ IF tool.ret.ok
       THEN ToolStep(ToolReturn(tool, Result(TRUE, JStr("token valid"))), server)
       ELSE ToolStep(ToolReturn(tool, Result(FALSE, JStr("token check failed"))), server)

(***************************************************************************)
(* _get_user_info, lines 1052-1070.                                        *)
(***************************************************************************)
server_get_user_info_enter ==
    /\ ToolAt("_get_user_info", "enter")
    /\ ToolStep(ToolAwaitCall(tool, "site", SITE_INFO), server)

server_get_user_info_site ==
    LET success == tool.ret.ok
        data == tool.ret.data
    IN
    /\ ToolAt("_get_user_info", "site")
    /\ IF success
       THEN IF data.type = "dict" /\ "userid" \in DOMAIN data.val
            THEN ToolStep(ToolAwaitCall(tool, "user", USERS_BY_FIELD),
                          [server EXCEPT !.user_id = Some(data.val["userid"])])
            ELSE ToolStep(ToolReturn(tool, Result(FALSE, JStr("no user id"))), server)
       ELSE ToolStep(ToolReturn(tool, Result(FALSE, JStr("site info error"))), server)

server_get_user_info_user ==
    LET user_success == tool.ret.ok
        user_data == tool.ret.data
    IN
    /\ ToolAt("_get_user_info", "user")
    /\ IF user_success /\ user_data.type = "list" /\ Len(user_data.val) > 0
       THEN ToolStep(ToolReturn(tool, Result(TRUE, JStr("user info received"))),
                     [server EXCEPT !.user_info = Some(user_data.val[1])])
       ELSE ToolStep(ToolReturn(tool, Result(FALSE, JStr("no user id"))), server)

(***************************************************************************)
(* _get_user_role, lines 1072-1090.                                        *)
(***************************************************************************)
\* any(role.get('shortname') in [...] for role in data.get('roles', []))
HasTeacherRole(data) ==
    /\ "roles" \in DOMAIN data
    /\ \E i \in 1..Len(data["roles"]) :
        /\ "shortname" \in DOMAIN data["roles"][i]
        /\ data["roles"][i]["shortname"] \in TeacherShortnames

server_get_user_role_enter ==
    /\ ToolAt("_get_user_role", "enter")
    /\ IF ~TruthyInt(server.user_id)
       THEN ToolStep(ToolAwait(tool, "info", "_get_user_info"), server)
       ELSE ToolStep(ToolAwaitCall(tool, "roles", USER_ROLES), server)

server_get_user_role_info ==
    /\ ToolAt("_get_user_role", "info")
    /\ IF ~tool.ret.ok
       THEN ToolStep(ToolReturn([tool EXCEPT !.role = "failed"], Result(FALSE, JNone)), server)
       ELSE ToolStep(ToolAwaitCall(tool, "roles", USER_ROLES), server)

server_get_user_role_roles ==
    LET success == tool.ret.ok
        data == tool.ret.data
    IN
    /\ ToolAt("_get_user_role", "roles")
    /\ IF success
       THEN IF data.type = "dict"
            THEN ToolStep(ToolReturn([tool EXCEPT !.role = "ok"], Result(TRUE, JNone)),
                          [server EXCEPT !.is_teacher = HasTeacherRole(data.val)])
            ELSE ToolStep(ToolRaise([tool EXCEPT !.role = "failed"]), server)     \* list has no .get
       ELSE ToolStep(ToolReturn([tool EXCEPT !.role = "failed"], Result(FALSE, JNone)), server)

(***************************************************************************)
(* _get_user_by_id, lines 1092-1101.                                       *)
(***************************************************************************)
get_user_by_id_enter ==
    /\ ToolAt("_get_user_by_id", "enter")
    /\ ToolStep(ToolAwaitCall(tool, "called", USERS_BY_FIELD), server)

get_user_by_id_called ==
    /\ ToolAt("_get_user_by_id", "called")
    /\ ToolStep(ToolReturn(tool, Result(TRUE, JNone)), server)

(***************************************************************************)
(* The tools login, set_token and set_mode, lines 54-113.                  *)
(***************************************************************************)
login_enter ==
    /\ ToolAt("login", "enter")
    /\ ToolStep(ToolAwait(tool, "auth", "_authenticate"),
                [server EXCEPT !.username = Some(tool.arg), !.password = Some("secret")])

login_auth ==
    /\ ToolAt("login", "auth")
    /\ IF tool.ret.ok
       THEN ToolStep(ToolAwait(tool, "role", "_get_user_role"), server)
       ELSE ToolStep(ToolReturn(tool, Message("authentication error")), server)

login_role ==
    /\ ToolAt("login", "role")
    /\ ToolStep(ToolReturn(tool, Message("logged in")), server)

set_token_enter ==
    /\ ToolAt("set_token", "enter")
    /\ ToolStep(ToolAwait(tool, "valid", "is_token_valid"),
                [server EXCEPT !.token = Some(tool.arg)])

set_token_valid ==
    /\ ToolAt("set_token", "valid")
    /\ IF tool.ret.ok
       THEN ToolStep(ToolAwait([tool EXCEPT !.valid = "ok"], "info", "_get_user_info"), server)
       ELSE ToolStep(ToolReturn([tool EXCEPT !.valid = "failed"], Message("invalid token")), server)

set_token_info ==
    /\ ToolAt("set_token", "info")
    /\ ToolStep(ToolAwait(tool, "role", "_get_user_role"), server)

set_token_role ==
    /\ ToolAt("set_token", "role")
    /\ ToolStep(ToolReturn(tool, Message("token set")), server)

set_mode_enter ==
    /\ ToolAt("set_mode", "enter")
    /\ ToolStep(ToolAwait(tool, "gate", "_ensure_authenticated"), server)

set_mode_gate ==
    LET mode == tool.arg IN
    /\ ToolAt("set_mode", "gate")
    /\ IF ~tool.ret.ok
       THEN ToolStep(ToolReturn(tool, Message("authentication required")), server)
       ELSE IF ~server.is_teacher
       THEN ToolStep(ToolReturn(tool, Message("teachers only")), server)
       ELSE IF Lower(mode) \notin {"analytical", "administrative"}
       THEN ToolStep(ToolReturn(tool, Message("unsupported mode")), server)
       ELSE ToolStep(ToolReturn(tool, Message("mode changed")),
                     [server EXCEPT !.mode = Lower(mode)])

(***************************************************************************)
(* The tools of every authenticated user: get_user_courses, lines 115-142. *)
(***************************************************************************)
\* every tool but login and set_token starts with _ensure_authenticated()
tool_enter(name) ==
    /\ ToolAt(name, "enter")
    /\ ToolStep(ToolAwait(tool, "gate", "_ensure_authenticated"), server)

\* the tool answers with the data or with the error of its last call
tool_data(name) ==
    /\ ToolAt(name, "data")
    /\ IF tool.ret.ok
       THEN ToolStep(ToolReturn(tool, Message("data")), server)
       ELSE ToolStep(ToolReturn(tool, Message("error")), server)

get_user_courses_enter == tool_enter("get_user_courses")

get_user_courses_gate ==
    /\ ToolAt("get_user_courses", "gate")
    /\ IF ~tool.ret.ok
       THEN ToolStep(ToolReturn(tool, Message("authentication required")), server)
       ELSE IF ~TruthyInt(server.user_id)
       THEN ToolStep(ToolAwait(tool, "info", "_get_user_info"), server)
       ELSE ToolStep(ToolAwaitCall(tool, "data", USERS_COURSES), server)

get_user_courses_info ==
    /\ ToolAt("get_user_courses", "info")
    /\ IF ~tool.ret.ok
       THEN ToolStep(ToolReturn(tool, Message(tool.ret.data.val)), server)
       ELSE ToolStep(ToolAwaitCall(tool, "data", USERS_COURSES), server)

get_user_courses_data == tool_data("get_user_courses")

(***************************************************************************)
(* The teacher's tools, lines 290-535.                                     *)
(***************************************************************************)
\* the checks at the head of a teacher's read tool, then its first call
teacher_gate(name, function) ==
    /\ ToolAt(name, "gate")
    /\ IF ~tool.ret.ok
       THEN ToolStep(ToolReturn(tool, Message("authentication required")), server)
       ELSE IF ~server.is_teacher
       THEN ToolStep(ToolReturn(tool, Message("teachers only")), server)
       ELSE ToolStep(ToolAwaitCall(tool, "data", function), server)

\* the checks at the head of a teacher's write tool, then its first call
administrative_gate(name, function) ==
    /\ ToolAt(name, "gate")
    /\ IF ~tool.ret.ok
       THEN ToolStep(ToolReturn(tool, Message("authentication required")), server)
       ELSE IF ~server.is_teacher
       THEN ToolStep(ToolReturn(tool, Message("teachers only")), server)
       ELSE IF server.mode # "administrative"
       THEN ToolStep(ToolReturn(tool, Message("administrative mode only")), server)
       ELSE ToolStep(ToolAwaitCall(tool, "data", function), server)

get_course_students_enter == tool_enter("get_course_students")
get_course_students_gate == teacher_gate("get_course_students", ENROLLED_USERS)
get_course_students_data == tool_data("get_course_students")

get_course_grades_enter == tool_enter("get_course_grades")
get_course_grades_gate == teacher_gate("get_course_grades", "gradereport_user_get_grade_items")
get_course_grades_data == tool_data("get_course_grades")

get_assignment_submissions_enter == tool_enter("get_assignment_submissions")
get_assignment_submissions_gate == teacher_gate("get_assignment_submissions", SUBMISSIONS)

\* lines 396-432: one _get_user_by_id per submission (one submission at most)
get_assignment_submissions_data ==
    LET success == tool.ret.ok
        data == tool.ret.data
    IN
    /\ ToolAt("get_assignment_submissions", "data")
    /\ IF ~success
       THEN ToolStep(ToolReturn(tool, Message("error")), server)
       ELSE IF data.val["assignments"] = <<>>
       THEN ToolStep(ToolReturn(tool, Message("no submissions")), server)
       ELSE ToolStep(ToolAwait(tool, "user", "_get_user_by_id"), server)

get_assignment_submissions_user ==
    /\ ToolAt("get_assignment_submissions", "user")
    /\ ToolStep(ToolReturn(tool, Message("data")), server)

\* lines 465-478: the instance of the first forum named as an announcements forum
forum_id(course_data) ==
    LET named == SelectSeq(course_data,
                    LAMBDA section :
                        /\ section["modules"] # <<>>
                        /\ section["modules"][1]["modname"] = "forum"
                        /\ section["modules"][1]["name"] \in {"Announcements", "News forum"})
    IN  IF named = <<>> THEN None ELSE Some(named[1]["modules"][1]["instance"])

create_announcement_enter == tool_enter("create_announcement")

\* create_announcement_gate without the check of the mode
create_announcement_gate_any_mode ==
    /\ ToolAt("create_announcement", "gate")
    /\ IF ~tool.ret.ok
       THEN ToolStep(ToolReturn(tool, Message("authentication required")), server)
       ELSE IF ~server.is_teacher
       THEN ToolStep(ToolReturn(tool, Message("teachers only")), server)
       ELSE ToolStep(ToolAwaitCall(tool, "data", COURSE_CONTENTS), server)

create_announcement_gate == administrative_gate("create_announcement", COURSE_CONTENTS)

create_announcement_data ==
    LET success == tool.ret.ok
        course_data == tool.ret.data
    IN
    /\ ToolAt("create_announcement", "data")
    /\ IF ~success
       THEN ToolStep(ToolReturn(tool, Message("error")), server)
       ELSE IF forum_id(course_data.val) = None
       THEN ToolStep(ToolReturn(tool, Message("no announcements forum")), server)
       ELSE ToolStep(ToolAwaitCall(tool, "posted", ADD_DISCUSSION), server)

create_announcement_posted ==
    /\ ToolAt("create_announcement", "posted")
    /\ IF tool.ret.ok
       THEN ToolStep(ToolReturn(tool, Message("announcement created")), server)
       ELSE ToolStep(ToolReturn(tool, Message("error")), server)

create_course_section_enter == tool_enter("create_course_section")
create_course_section_gate == administrative_gate("create_course_section", EDIT_SECTION)
create_course_section_data == tool_data("create_course_section")

(***************************************************************************)
(* The MCP server on its own: a client calls one tool after another.       *)
(***************************************************************************)
InitServer ==
    /\ FORCE_TEACHER_ROLE = ""
    /\ token = [c \in Clients |-> None]
    /\ authenticated = [c \in Clients |-> FALSE]
    /\ username = [c \in Clients |-> None]
    /\ user_id = [c \in Clients |-> None]
    /\ is_teacher = [c \in Clients |-> FALSE]
    /\ task = [t \in Tasks |-> IdleTask]
    /\ inflight = [t \in Tasks |-> None]
    /\ running = "none"
    /\ evidence = [c \in Clients |-> FALSE]
    /\ \E API_MOODLE_TOKEN \in {None, Some("tokA")} : server = MoodleMCPServer(API_MOODLE_TOKEN)
    /\ tool = NoTool

NextServer ==
    \/ \E name \in ToolNames : \E arg \in ToolArgs(name) : CallTool(name, arg)
    \/ call_moodle_api_enter
    \/ \E reply \in MoodleReplies(tool.call) : call_moodle_api_resume(reply)
    \/ server_authenticate_enter
    \/ \E reply \in LoginReplies : server_authenticate_posted(reply)
    \/ ensure_authenticated_enter
    \/ ensure_authenticated_auth
    \/ server_is_token_valid_enter
    \/ server_is_token_valid_checked
    \/ server_get_user_info_enter
    \/ server_get_user_info_site
    \/ server_get_user_info_user
    \/ server_get_user_role_enter
    \/ server_get_user_role_info
    \/ server_get_user_role_roles
    \/ get_user_by_id_enter
    \/ get_user_by_id_called
    \/ login_enter
    \/ login_auth
    \/ login_role
    \/ set_token_enter
    \/ set_token_valid
    \/ set_token_info
    \/ set_token_role
    \/ set_mode_enter
    \/ set_mode_gate
    \/ get_user_courses_enter
    \/ get_user_courses_gate
    \/ get_user_courses_info
    \/ get_user_courses_data
    \/ get_course_students_enter
    \/ get_course_students_gate
    \/ get_course_students_data
    \/ get_course_grades_enter
    \/ get_course_grades_gate
    \/ get_course_grades_data
    \/ get_assignment_submissions_enter
    \/ get_assignment_submissions_gate
    \/ get_assignment_submissions_data
    \/ get_assignment_submissions_user
    \/ create_announcement_enter
    \/ create_announcement_gate
    \/ create_announcement_data
    \/ create_announcement_posted
    \/ create_course_section_enter
    \/ create_course_section_gate
    \/ create_course_section_data

SpecServer == InitServer /\ [][NextServer]_vars

(***************************************************************************)
(* Properties.                                                             *)
(***************************************************************************)
\* the operation op of task t has returned to its caller
Finished(t, op) == task[t].stack = <<>> /\ task[t].last.op = op

\* in this step the innermost coroutine of t returns ok to its caller
ReturnsWith(t, ok) ==
    /\ Len(task'[t].stack) = Len(task[t].stack) - 1
    /\ IF Len(task[t].stack) = 1 THEN task'[t].last.ok = ok ELSE task'[t].ret.ok = ok

\* C1: an authenticate_with_token() whose every probe the remote service
\* answered normally ends with authenticated = true, the token present and
\* user_id set; one whose first (site-info) probe came back as an
\* invalid-token envelope returns failure and ends with the token cleared
\* and authenticated = false.
C1_AuthenticateOutcome ==
    \A t \in Tasks :
        LET c == ClientOf(t) IN
        Finished(t, "authenticate_with_token") =>
            /\ (task[t].probe # "none" /\ task[t].accepted) =>
                    /\ task[t].last.ok
                    /\ authenticated[c] /\ TruthyStr(token[c]) /\ user_id[c] # None
            /\ task[t].probe \in {"invalidtoken", "invalidtoken_compact"} =>
                    /\ ~task[t].last.ok
                    /\ token[c] = None /\ ~authenticated[c]

C1_Witness ==
    /\ Finished("t1", "authenticate_with_token")
    /\ task["t1"].probe = "accept" /\ task["t1"].accepted
    /\ task["t1"].asked = USERS_COURSES
    /\ authenticated["teacher"]

\* C2: a _call_api() that received an invalid-token envelope or an HTTP
\* 401/403 leaves the token empty on return, and a _call_api() entered with
\* the token empty returns failure without sending a request.
C2_CallDiscardsRejectedToken ==
    /\ [](\A t \in Tasks :
            Finished(t, "_call_api")
            /\ task[t].probe \in {"invalidtoken", "invalidtoken_compact", "unauthorized"}
            => token[ClientOf(t)] = None)
    /\ [][\A t \in Tasks :
            At(t, "_call_api", "enter") /\ token[ClientOf(t)] = None
            => ReturnsWith(t, FALSE) /\ task'[t].asked = task[t].asked /\ inflight'[t] = None]_vars

\* C3: when _get_user_role() returns failure and the forced override is
\* not active, is_teacher is false afterwards.
C3_RoleFalseAfterFailure ==
    \A t \in Tasks :
        Finished(t, "_get_user_role") /\ ~task[t].last.ok /\ ~ForceTeacher
        => ~is_teacher[ClientOf(t)]

\* C4: is_teacher is true only if the forced override is active, or user_id
\* has been resolved and a response of the remote service has shown a
\* teacher role (an enrolled course with an inline role id in {3, 4}, or an
\* enrolled-users entry of the user with a teacher shortname).
C4_TeacherOnlyIfForcedOrMatched ==
    \A c \in Clients :
        is_teacher[c] => ForceTeacher \/ (user_id[c] # None /\ evidence[c])

C4_Witness ==
    /\ is_teacher["teacher"] /\ ~ForceTeacher
    /\ token["teacher"] = None
    /\ task["t1"].stack = <<>>

\* C5: in every state authenticated = true implies that the token is present.
C5_AuthenticatedImpliesToken ==
    \A c \in Clients : authenticated[c] => token[c] # None

\* C6: when the token is absent or empty, authenticate_with_token, _call_api,
\* is_token_valid and update_user_info return failure at once and send no
\* request.
C6_NoCredentialFailsFast ==
    [][\A t \in Tasks :
        /\ Len(task[t].stack) = 1
        /\ \E fn \in {"authenticate_with_token", "_call_api", "is_token_valid", "update_user_info"} :
               At(t, fn, "enter")
        /\ ~TruthyStr(token[ClientOf(t)])
        => /\ task'[t].stack = <<>> /\ ~task'[t].last.ok
           /\ task'[t].asked = "" /\ inflight'[t] = None]_vars

\* C7: when the site-info probe of authenticate_with_token() fails through a
\* timeout, a network error, a non-401/403 HTTP status, a malformed body or
\* an error envelope without the invalid-token code, authenticate reports
\* failure and the token is preserved.
C7_TransientFailureKeepsToken ==
    \A t \in Tasks :
        Finished(t, "authenticate_with_token")
        /\ task[t].probe \in {"timeout", "network", "http_error", "malformed", "domain_error"}
        => ~task[t].last.ok /\ TruthyStr(token[ClientOf(t)])

\* C8: when the enrolled-courses response holds a course with an inline
\* role id in {3, 4}, _get_user_role sets is_teacher, returns success at
\* once and sends no enrolled-users request: the enrolled-courses request
\* is still the last one sent when it returns.
C8_CheapPassShortCircuit ==
    [][\A t \in Tasks :
        /\ At(t, "_get_user_role", "courses")
        /\ task[t].ret.ok /\ task[t].ret.data.type = "list"
        /\ \E i \in 1..Len(task[t].ret.data.val) :
               /\ "roleid" \in DOMAIN task[t].ret.data.val[i]
               /\ task[t].ret.data.val[i]["roleid"] \in TeacherRoleIds
        => /\ is_teacher'[ClientOf(t)]
           /\ ReturnsWith(t, TRUE)
           /\ task'[t].asked = USERS_COURSES /\ inflight'[t] = None]_vars

C8_Witness ==
    /\ Finished("t1", "_get_user_role") /\ task["t1"].last.ok
    /\ ~ForceTeacher /\ is_teacher["teacher"]
    /\ task["t1"].asked = USERS_COURSES

\* C9: when the forced override is active and user_id is resolved,
\* _get_user_role sets is_teacher, returns success and sends no request.
C9_ForcedOverrideNoNetwork ==
    [][\A t \in Tasks :
        /\ At(t, "_get_user_role", "enter")
        /\ TruthyInt(user_id[ClientOf(t)])
        /\ ForceTeacher
        => /\ is_teacher'[ClientOf(t)]
           /\ ReturnsWith(t, TRUE)
           /\ task'[t].asked = task[t].asked /\ inflight'[t] = None]_vars

C9_Witness ==
    /\ Finished("t1", "_get_user_role") /\ task["t1"].last.ok
    /\ ForceTeacher /\ TruthyInt(user_id["teacher"])
    /\ is_teacher["teacher"] /\ task["t1"].asked = ""

\* C10: in the request of a _call_api(function, params), every element v of
\* a list under key k that is a scalar is found under k[i], every entry of
\* an element that is an object under k[i][subkey], every scalar value
\* under its own key, with i counted from 0; and wstoken, wsfunction and
\* moodlewsrestformat are always present.
IsScalar(v) == v.type \in {"int", "str"}

C11_RoleFailureNonFatal ==
    \A t \in Tasks :
        LET c == ClientOf(t) IN
        /\ Finished(t, "authenticate_with_token")
        /\ task[t].probe = "accept"
        /\ task[t].asked \in {USERS_COURSES, ENROLLED_USERS}
        /\ ~task[t].shown /\ ~ForceTeacher
        => task[t].last.ok /\ authenticated[c] /\ ~is_teacher[c]

\* the response that resumes _call_api in this step says v
Hears(t, v) == task[t].heard = "none" /\ task'[t].heard = v

\* C12: a _call_api() whose response is an invalid-token envelope, in the
\* exception shape or in the compact shape (error and errorcode only),
\* returns failure and leaves the token empty.
C12_BothEnvelopesDiscardToken ==
    [][\A t \in Tasks :
        Hears(t, "invalidtoken") \/ Hears(t, "invalidtoken_compact")
        => ReturnsWith(t, FALSE) /\ token'[ClientOf(t)] = None]_vars

\* C13: whenever authenticate_with_token() has returned success, the token
\* is present and user_id is set, whatever its username probe and its role
\* lookups were answered.
C13_SuccessImpliesCredential ==
    \A t \in Tasks :
        Finished(t, "authenticate_with_token") /\ task[t].last.ok
        => TruthyStr(token[ClientOf(t)]) /\ TruthyInt(user_id[ClientOf(t)])

\* C14: when the enrolled-courses response holds a course with an inline
\* role id and no role id of the response is in {3, 4}, _get_user_role sets
\* is_teacher false, returns, and sends no enrolled-users request.
C14_InlineRolesSkipExpensivePass ==
    [][\A t \in Tasks :
        LET courses_data == task[t].ret.data IN
        /\ At(t, "_get_user_role", "courses")
        /\ task[t].ret.ok /\ courses_data.type = "list"
        /\ \E i \in 1..Len(courses_data.val) : "roleid" \in DOMAIN courses_data.val[i]
        /\ \A i \in 1..Len(courses_data.val) :
               "roleid" \in DOMAIN courses_data.val[i]
               => courses_data.val[i]["roleid"] \notin TeacherRoleIds
        => /\ ~is_teacher'[ClientOf(t)]
           /\ ReturnsWith(t, TRUE)
           /\ inflight'[t] = None /\ task'[t].asked = USERS_COURSES]_vars

\* C15: after a _get_user_role() without the forced override in which every
\* lookup was answered normally, the operation has reported success and
\* is_teacher is true exactly if one of the responses showed a teacher role:
\* an enrolled course with an inline role id in {3, 4}, or an enrolled-users
\* listing holding the current user with a teacher shortname.
C15_FlagIsFoldOverCourses ==
    \A t \in Tasks :
        /\ Finished(t, "_get_user_role")
        /\ ~ForceTeacher
        /\ task[t].probe # "none" /\ task[t].accepted
        => /\ task[t].last.ok
           /\ is_teacher[ClientOf(t)] <=> task[t].shown

C15_Witness ==
    /\ Finished("t1", "_get_user_role")
    /\ ~ForceTeacher
    /\ task["t1"].accepted /\ task["t1"].asked = ENROLLED_USERS
    /\ task["t1"].shown /\ is_teacher["teacher"]

IsPrefix(a, b) == Len(a) <= Len(b) /\ SubSeq(b, 1, Len(a)) = a

\* C16: the enrolled-users requests of a _get_user_role() follow the courses
\* of the enrolled-courses response in list order, one per course at most
\* (so at most 1 + N requests for N courses); once a response has shown a
\* teacher role no further request is sent; and the operation terminates.
C16_ExpensivePassBounded ==
    /\ [](\A t \in Tasks :
            /\ IsPrefix(task[t].looked, task[t].listed)
            /\ task[t].stack # <<>> /\ task[t].stack[1].fn = "_get_user_role" /\ task[t].shown
               => inflight[t] = None)
    /\ \A t \in Tasks : (task[t].stack # <<>>) ~> (task[t].stack = <<>>)

C16_Witness ==
    /\ Finished("t1", "_get_user_role")
    /\ Len(task["t1"].listed) = 2 /\ task["t1"].looked = task["t1"].listed
    /\ task["t1"].looked[1] # task["t1"].looked[2]
    /\ task["t1"].shown

\* C17: no value of the request of a _call_api(function, params) is itself
\* a list or an object, whatever the parameters were: a mapping given
\* directly as a value and structures nested inside list elements are
\* flattened too.
C17_RequestValuesAreScalars ==
    \A t \in Tasks :
        inflight[t] # None =>
            \A k \in DOMAIN Val(inflight[t]) : IsScalar(Val(inflight[t])[k])

\* C18: sending the request of a _call_api() changes no field of the client;
\* the _call_api() step that takes a malformed body, an error envelope
\* without the invalid-token code, an HTTP status other than 401/403, a
\* timeout or a network error returns failure and leaves token, user_id,
\* username, is_teacher and authenticated as they were; the one that
\* returns success leaves user_id, username and is_teacher as they were.
C18_CallFrame ==
    [][\A t \in Tasks :
        LET c == ClientOf(t) IN
        /\ At(t, "_call_api", "enter")
           => /\ token'[c] = token[c] /\ authenticated'[c] = authenticated[c]
              /\ user_id'[c] = user_id[c] /\ username'[c] = username[c]
              /\ is_teacher'[c] = is_teacher[c]
        /\ (\E v \in {"malformed", "domain_error", "http_error", "timeout", "network"} : Hears(t, v))
           => /\ ReturnsWith(t, FALSE)
              /\ token'[c] = token[c] /\ authenticated'[c] = authenticated[c]
              /\ user_id'[c] = user_id[c] /\ username'[c] = username[c]
              /\ is_teacher'[c] = is_teacher[c]
        /\ (\E v \in {"accept", "unexpected"} : Hears(t, v))
           => /\ ReturnsWith(t, TRUE)
              /\ user_id'[c] = user_id[c] /\ username'[c] = username[c]
              /\ is_teacher'[c] = is_teacher[c]]_vars

C18_Witness ==
    /\ Finished("t1", "_call_api") /\ ~task["t1"].last.ok
    /\ task["t1"].heard = "http_error"
    /\ token["teacher"] = Some("abc") /\ authenticated["teacher"]
    /\ user_id["teacher"] = Some(7) /\ is_teacher["teacher"]

\* C19: no step of any operation changes the token except to discard it: a
\* present token keeps its value or becomes absent, an absent token stays
\* absent.
C19_TokenOnlyDiscarded ==
    [][\A c \in Clients : token'[c] = token[c] \/ token'[c] = None]_vars

C19_Witness ==
    /\ token["teacher"] = None /\ user_id["teacher"] = Some(7)
    /\ Finished("t1", "authenticate_with_token")
    /\ task["t1"].probe = "none" /\ ~task["t1"].last.ok

\* C20: once user_id is set, no step of an authenticate_with_token() changes
\* it, whatever user id the site-info probes of that call return.
C20_IdentityImmutable ==
    [][\A t \in Tasks :
        /\ task[t].stack # <<>>
        /\ task[t].stack[1].fn = "authenticate_with_token"
        /\ TruthyInt(user_id[ClientOf(t)])
        => user_id'[ClientOf(t)] = user_id[ClientOf(t)]]_vars

\* the running coroutine of t is is_token_valid, or the _get_user_info it awaits
InTokenCheck(t) ==
    /\ running = t /\ task[t].stack # <<>>
    /\ \/ Top(t).fn = "is_token_valid"
       \/ /\ Top(t).fn = "_get_user_info" /\ Len(task[t].stack) >= 2
          /\ task[t].stack[Len(task[t].stack) - 1].fn = "is_token_valid"

ClientFields(c) == <<token[c], authenticated[c], username[c], user_id[c], is_teacher[c]>>

\* C21: an is_token_valid() that has returned success has populated user_id,
\* with the user id of the site-info response; and no step of
\* is_token_valid, or of the _get_user_info it awaits, changes a field of
\* the client except the step that stores the identity of a successful
\* response: a failing is_token_valid changes nothing beyond what _call_api
\* changed.
C21_TokenCheckFrame ==
    /\ [](\A t \in Tasks :
            Finished(t, "is_token_valid") /\ task[t].last.ok => user_id[ClientOf(t)] # None)
    /\ [][\A t \in Tasks :
            LET c == ClientOf(t)
                data == task[t].ret.data
            IN
            InTokenCheck(t) =>
                IF /\ At(t, "_get_user_info", "called") /\ task[t].ret.ok
                   /\ data.type = "dict" /\ "userid" \in DOMAIN data.val
                THEN /\ user_id'[c] = Some(data.val["userid"])
                     /\ token'[c] = token[c] /\ authenticated'[c] = authenticated[c]
                     /\ is_teacher'[c] = is_teacher[c]
                     /\ ReturnsWith(t, TRUE)
                ELSE /\ ClientFields(c)' = ClientFields(c)
                     /\ At(t, "_get_user_info", "called") => ReturnsWith(t, FALSE)]_vars

C21_Witness ==
    /\ Finished("t1", "is_token_valid") /\ ~task["t1"].last.ok
    /\ task["t1"].heard = "unexpected"
    /\ token["teacher"] = Some("abc") /\ user_id["teacher"] = Some(7)
    /\ authenticated["teacher"] /\ is_teacher["teacher"]

\* C22: a _get_user_info() whose site-info call succeeded with a response
\* that carries no userid returns failure and leaves user_id as it was; an
\* authenticate_with_token() to which _get_user_info or the validity check
\* reports failure returns failure with authenticated = false, and so does
\* every one whose first site-info response carried no userid.
C22_MissingUserIdIsFatal ==
    /\ [](\A t \in Tasks :
            Finished(t, "authenticate_with_token") /\ task[t].probe = "unexpected"
            => ~task[t].last.ok /\ ~authenticated[ClientOf(t)])
    /\ [][\A t \in Tasks :
            LET c == ClientOf(t)
                data == task[t].ret.data
            IN
            /\ /\ At(t, "_get_user_info", "called") /\ task[t].ret.ok
               /\ ~(data.type = "dict" /\ "userid" \in DOMAIN data.val)
               => ReturnsWith(t, FALSE) /\ user_id'[c] = user_id[c]
            /\ /\ At(t, "authenticate_with_token", "validated") \/ At(t, "authenticate_with_token", "info")
               /\ ~task[t].ret.ok
               => ReturnsWith(t, FALSE) /\ ~authenticated'[c]]_vars

C22_Witness ==
    /\ Finished("t1", "authenticate_with_token") /\ ~task["t1"].last.ok
    /\ task["t1"].probe = "unexpected"
    /\ user_id["teacher"] = Some(7) /\ ~authenticated["teacher"]

\* C23: the step that takes the response of a _call_api() returns to the
\* caller and sends nothing, so one invocation sends one request at most;
\* and a coroutine that is handed a failure never answers it by awaiting
\* _call_api again, except the course loop of _get_user_role, which moves on
\* to the next course of its list.
C23_NoAutomaticRetry ==
    [][\A t \in Tasks :
        /\ /\ task[t].stack # <<>> /\ Top(t) = Frame("_call_api", "get")
           /\ task'[t] # task[t]
           => inflight'[t] = None /\ Len(task'[t].stack) = Len(task[t].stack) - 1
        /\ /\ running = t /\ task[t].stack # <<>>
           /\ Top(t).fn # "_call_api" /\ Top(t).pc # "enter"
           /\ ~task[t].ret.ok
           /\ task'[t].stack # <<>>
           /\ task'[t].stack[Len(task'[t].stack)].fn = "_call_api"
           => /\ At(t, "_get_user_role", "users")
              /\ Len(task'[t].course_ids) < Len(task[t].course_ids)]_vars

C23_Witness ==
    /\ Finished("t1", "_get_user_role")
    /\ task["t1"].probe = "accept" /\ task["t1"].heard = "timeout"
    /\ Len(task["t1"].looked) = 2

\* C24: on a client constructed while the forced override was off, a later
\* change of FORCE_TEACHER_ROLE changes no result of _get_user_role():
\* is_teacher is true only if a response has shown a teacher role, and a
\* finished resolution with identity and token has consulted the server.
C24_OverrideReadAtConstruction ==
    \A t \in Tasks :
        LET c == ClientOf(t) IN
        /\ is_teacher[c] => evidence[c]
        /\ Finished(t, "_get_user_role") /\ TruthyInt(user_id[c]) /\ token[c] # None
           => task[t].probe # "none"

\* C25: when the username refresh of authenticate_with_token() fails, the
\* authentication goes on to the role resolution with username set to the
\* placeholder; and after every authenticate_with_token() that returned
\* success the username is present.
C25_UsernameNeverAbsent ==
    /\ [][\A t \in Tasks :
            At(t, "authenticate_with_token", "site_info") /\ ~task[t].ret.ok
            => /\ username'[ClientOf(t)] = Some("TokenUser")
               /\ Len(task'[t].stack) > Len(task[t].stack)]_vars
    /\ [](\A t \in Tasks :
            Finished(t, "authenticate_with_token") /\ task[t].last.ok
            => username[ClientOf(t)] # None)


\* C26: with several tasks on one client, a task that stops running before
\* its operation has returned has just sent a request from _call_api, and no
\* other task moves while it runs; every request is built in the step that
\* found the client's token present and carries that token, so a request in
\* flight always carries a token, also after another task's response has
\* discarded the client's token.
C26_SuspendedOnlyAtRequest ==
    /\ [][\A t \in Tasks :
            LET c == ClientOf(t) IN
            /\ running = t /\ running' # t /\ task'[t].stack # <<>>
               => /\ inflight[t] = None /\ inflight'[t] # None
                  /\ task'[t].stack[Len(task'[t].stack)] = Frame("_call_api", "get")
            /\ running = t
               => \A u \in Tasks \ {t} : task'[u] = task[u] /\ inflight'[u] = inflight[u]
            /\ inflight'[t] # None /\ inflight'[t] # inflight[t]
               => /\ At(t, "_call_api", "enter")
                  /\ token[c] # None /\ token'[c] = token[c]
                  /\ Val(inflight'[t])["wstoken"] = JStr(Val(token[c]))]_vars
    /\ [](\A t \in Tasks :
            inflight[t] # None => Val(inflight[t])["wstoken"].type = "str")

\* t1's request is in flight while the response to t2's request has discarded
\* the token of the client they share
C26_Witness ==
    /\ inflight["t1"] # None
    /\ token["teacher"] = None
    /\ task["t2"].heard \in {"invalidtoken", "unauthorized"}


\* C28: when update_user_info() has returned success the client's token is
\* present, authenticated is true and the identity is resolved; when the
\* authenticate_with_token() it ran first has failed it returns failure at
\* once; and with no token it returns failure without sending a request.
C28_UpdateOutcome ==
    /\ [](\A t \in Tasks :
            LET c == ClientOf(t) IN
            Finished(t, "update_user_info") /\ task[t].last.ok
            => token[c] # None /\ authenticated[c] /\ user_id[c] # None)
    /\ [][\A t \in Tasks :
            LET c == ClientOf(t) IN
            /\ At(t, "update_user_info", "auth") /\ ~task[t].ret.ok
               => task'[t].stack = <<>> /\ ~task'[t].last.ok
            /\ At(t, "update_user_info", "enter") /\ ~TruthyStr(token[c])
               => task'[t].stack = <<>> /\ ~task'[t].last.ok /\ task'[t].asked = ""]_vars


\* C27: a step of an operation on one client leaves token, authenticated,
\* username, user_id and is_teacher of every other client as they were.
C27_InstancesShareNothing ==
    [][\A t \in Tasks :
        task'[t] # task[t]
        => \A other \in Clients \ {ClientOf(t)} : ClientFields(other)' = ClientFields(other)]_vars

\* the teacher dashboard's client has had its token discarded by a response
\* while the student dashboard's client is authenticated with its own token,
\* identity and role
C27_Witness ==
    /\ token["teacher"] = None
    /\ task["t1"].heard \in {"invalidtoken", "unauthorized"}
    /\ token["student"] # None
    /\ authenticated["student"]
    /\ user_id["student"] # None
    /\ is_teacher["student"] # is_teacher["teacher"]


\* the tool call of the MCP server has a web-service request in flight
Calling(function) ==
    /\ tool.sent # None
    /\ Val(tool.sent).endpoint = "webservice/rest/server.php"
    /\ Val(tool.sent).wsfunction = function

C30_SetTokenResetsPrivilege ==
    tool.name = "set_token" /\ tool.stack = <<>>
    => /\ server.token \in {None, Some(tool.arg)}
       /\ tool.valid # "ok" \/ tool.role # "ok" => ~server.is_teacher
       /\ tool.valid # "ok" => server.token = None

====
